---- MODULE Spec2Model ----
(***************************************************************************)
(* Model of the jewellery text normalisation in                            *)
(* src/database/db_inseartin.py: extract_metals, extract_karat_info,       *)
(* parse_ct, standardize_diawt_value and extract_diamond_weight.           *)
(*                                                                         *)
(* Texts are TLA+ strings.  The regular expressions of the source are      *)
(* written as syntax trees (Lit, Cls, Cat, Alt, Rep, ...) and run by a     *)
(* backtracking matcher that returns the possible match ends in the order  *)
(* Python's re module tries them, so that the first end is the match.      *)
(***************************************************************************)
EXTENDS Integers, Sequences, FiniteSets, TLC

VARIABLES
    text,             \* the product name handed to the extractor: Some(string) or None
    seed,             \* the process's string-hash seed (PYTHONHASHSEED)
    pc,               \* "ready" before a call, "done" after it
    kt,               \* result of extract_karat_info: Some(string) or None
    wt,               \* result of extract_diamond_weight: Some(string) or None
    runs,             \* the results of the calls made so far on this text
    all_matches,      \* extract_metals: the matches of the three patterns
    metals,           \* extract_karat_info: the list extract_metals returned
    metal_free_text,  \* extract_diamond_weight: the text after the leading strip
    matches,          \* extract_diamond_weight: the (val, unit) pairs found
    diamond_cts,      \* extract_diamond_weight: the candidates kept
    exc,              \* the exception that left the call: Some(name) or None
    calls,            \* concurrent callers: the frame (locals) of each one's call
    svc               \* the service: the table, the monthly count, the last request

vars == <<text, seed, pc, kt, wt, runs, all_matches, metals, metal_free_text,
          matches, diamond_cts, exc, calls, svc>>

\* A Python value that may be None: <<>> is None, <<v>> is the value v
None == <<>>
Some(v) == <<v>>

(***************************************************************************)
(* Bounds of the model.                                                    *)
(***************************************************************************)
MaxMetalWords == 3    \* words of a product name, metal extractor
MaxCaratWords == 3    \* phrases of a product name, weight extractor
MaxRerunWords == 3    \* words of a product name that is extracted repeatedly
NumHashSeeds == 2     \* hash seeds a process may start with
MaxRuns == 2          \* calls made on one product name
MaxMalformedWords == 3  \* tokens of a malformed product name
NumCallers == 2       \* requests served at the same time
MaxKaratWords == 3    \* words of a product name with karat and carat numbers
MaxRequests == 2      \* save requests served

(***************************************************************************)
(* Characters.                                                             *)
(***************************************************************************)
Digits == {"0", "1", "2", "3", "4", "5", "6", "7", "8", "9"}
UpperLetters == {"A", "B", "C", "D", "E", "F", "G", "H", "I", "J", "K", "L", "M",
                 "N", "O", "P", "Q", "R", "S", "T", "U", "V", "W", "X", "Y", "Z"}
LowerLetters == {"a", "b", "c", "d", "e", "f", "g", "h", "i", "j", "k", "l", "m",
                 "n", "o", "p", "q", "r", "s", "t", "u", "v", "w", "x", "y", "z"}
\* \w of Python's re, on ASCII text
WordChars == Digits \cup UpperLetters \cup LowerLetters \cup {"_"}
\* \s of Python's re, on the characters the texts use
SpaceChars == {" "}

LowerSeq == <<"a", "b", "c", "d", "e", "f", "g", "h", "i", "j", "k", "l", "m",
              "n", "o", "p", "q", "r", "s", "t", "u", "v", "w", "x", "y", "z">>
UpperSeq == <<"A", "B", "C", "D", "E", "F", "G", "H", "I", "J", "K", "L", "M",
              "N", "O", "P", "Q", "R", "S", "T", "U", "V", "W", "X", "Y", "Z">>
UpperMap == [c \in LowerLetters |-> UpperSeq[CHOOSE i \in 1..26 : LowerSeq[i] = c]]
LowerMap == [c \in UpperLetters |-> LowerSeq[CHOOSE i \in 1..26 : UpperSeq[i] = c]]

\* the character of s after i characters, "" past the end
At(s, i) == IF i >= 0 /\ i < Len(s) THEN SubSeq(s, i + 1, i + 1) ELSE ""

RECURSIVE MapChars(_, _, _)
MapChars(s, m, i) ==
    IF i > Len(s) THEN ""
    ELSE LET c == SubSeq(s, i, i)
         IN (IF c \in DOMAIN m THEN m[c] ELSE c) \o MapChars(s, m, i + 1)

\* str.upper() and str.lower()
Upper(s) == MapChars(s, UpperMap, 1)
Lower(s) == MapChars(s, LowerMap, 1)

(***************************************************************************)
(* Regular expressions: syntax trees and the backtracking matcher.         *)
(***************************************************************************)
Lit(s) == [t |-> "lit", s |-> s]
Cls(S) == [t |-> "cls", cs |-> S]
Cat(rs) == [t |-> "cat", rs |-> rs]
Alt(rs) == [t |-> "alt", rs |-> rs]
\* greedy repetition r{lo,hi}
Rep(r, lo, hi) == [t |-> "rep", r |-> r, lo |-> lo, hi |-> hi]
\* hi < 0 stands for no upper limit
Opt(r) == Rep(r, 0, 1)
Star(r) == Rep(r, 0, -1)
Plus(r) == Rep(r, 1, -1)
WordB == [t |-> "wb"]
Bol == [t |-> "bol"]
\* (?<![...]) for one character
NotBehind(S) == [t |-> "nlb", cs |-> S]

\* the ends of the matches of r in s from offset i, in the order the
\* backtracking matcher reaches them
RECURSIVE Ends(_, _, _), CatEnds(_, _, _, _), AltEnds(_, _, _, _),
          RepEnds(_, _, _, _, _), Each(_, _, _, _)
Ends(r, s, i) ==
    CASE r.t = "lit" ->
            IF i + Len(r.s) <= Len(s) /\ SubSeq(s, i + 1, i + Len(r.s)) = r.s
            THEN <<i + Len(r.s)>> ELSE <<>>
      [] r.t = "cls" -> IF At(s, i) \in r.cs THEN <<i + 1>> ELSE <<>>
      [] r.t = "cat" -> CatEnds(r.rs, 1, s, i)
      [] r.t = "alt" -> AltEnds(r.rs, 1, s, i)
      [] r.t = "rep" -> RepEnds(r.r, s, i, r.lo, r.hi)
      [] r.t = "wb" ->
            IF (At(s, i - 1) \in WordChars) # (At(s, i) \in WordChars)
            THEN <<i>> ELSE <<>>
      [] r.t = "bol" -> IF i = 0 THEN <<i>> ELSE <<>>
      [] r.t = "nlb" -> IF At(s, i - 1) \in r.cs THEN <<>> ELSE <<i>>

\* rs[k..] matched from i
CatEnds(rs, k, s, i) ==
    IF k > Len(rs) THEN <<i>>
    ELSE LET first == Ends(rs[k], s, i)
         IN Each(first, 1, s, [kind |-> "cat", rs |-> rs, k |-> k + 1])

AltEnds(rs, k, s, i) ==
    IF k > Len(rs) THEN <<>>
    ELSE Ends(rs[k], s, i) \o AltEnds(rs, k + 1, s, i)

\* greedy: one more repetition is tried before stopping here
RepEnds(r, s, i, lo, hi) ==
    LET more == IF hi = 0 THEN <<>>
                ELSE Each(SelectSeq(Ends(r, s, i), LAMBDA e : e > i), 1, s,
                          [kind |-> "rep", r |-> r,
                           lo |-> IF lo > 0 THEN lo - 1 ELSE 0, hi |-> hi - 1])
    IN more \o (IF lo = 0 THEN <<i>> ELSE <<>>)

\* the continuation k run from each of the offsets es[j..], in order
Each(es, j, s, k) ==
    IF j > Len(es) THEN <<>>
    ELSE (IF k.kind = "cat" THEN CatEnds(k.rs, k.k, s, es[j])
          ELSE RepEnds(k.r, s, es[j], k.lo, k.hi))
         \o Each(es, j + 1, s, k)

\* re.match at offset i: the end of the match, -1 when there is none
MatchEnd(r, s, i) == LET es == Ends(r, s, i) IN IF es = <<>> THEN -1 ELSE es[1]

\* re.findall for a pattern without groups: the matched strings, left to
\* right, each search resuming where the previous match ended
RECURSIVE FindAllFrom(_, _, _)
FindAllFrom(r, s, i) ==
    IF i > Len(s) THEN <<>>
    ELSE LET e == MatchEnd(r, s, i)
         IN IF e < 0 THEN FindAllFrom(r, s, i + 1)
            ELSE <<SubSeq(s, i + 1, e)>>
                 \o FindAllFrom(r, s, IF e = i THEN i + 1 ELSE e)
FindAll(r, s) == FindAllFrom(r, s, 0)


\* re.search: the offset and end of the leftmost match, <<>> when none
RECURSIVE SearchFrom(_, _, _)
SearchFrom(r, s, i) ==
    IF i > Len(s) THEN <<>>
    ELSE LET e == MatchEnd(r, s, i)
         IN IF e < 0 THEN SearchFrom(r, s, i + 1) ELSE <<i, e>>
Search(r, s) == SearchFrom(r, s, 0)

\* the pattern (r1)(r2) at offset i: <<end of group 1, end of group 2>> of
\* the first way to match, <<>> when there is none
RECURSIVE FirstPair(_, _, _, _)
FirstPair(es, j, r2, s) ==
    IF j > Len(es) THEN <<>>
    ELSE LET e2 == MatchEnd(r2, s, es[j])
         IN IF e2 < 0 THEN FirstPair(es, j + 1, r2, s) ELSE <<es[j], e2>>
Match2(r1, r2, s, i) == FirstPair(Ends(r1, s, i), 1, r2, s)

\* a replacement template: group references [g |-> n] and literals [s |-> ..]
RECURSIVE Expand(_, _, _)
Expand(tmpl, k, groups) ==
    IF k > Len(tmpl) THEN ""
    ELSE (IF "g" \in DOMAIN tmpl[k] THEN groups[tmpl[k].g] ELSE tmpl[k].s)
         \o Expand(tmpl, k + 1, groups)

\* re.sub of the two-group pattern (r1)(r2) by the template
RECURSIVE Sub2From(_, _, _, _, _)
Sub2From(r1, r2, tmpl, s, i) ==
    IF i >= Len(s) THEN ""
    ELSE LET m == Match2(r1, r2, s, i)
         IN IF m = <<>> \/ m[2] = i
            THEN At(s, i) \o Sub2From(r1, r2, tmpl, s, i + 1)
            ELSE Expand(tmpl, 1, <<SubSeq(s, i + 1, m[1]), SubSeq(s, m[1] + 1, m[2])>>)
                 \o Sub2From(r1, r2, tmpl, s, m[2])
Sub2(r1, r2, tmpl, s) == Sub2From(r1, r2, tmpl, s, 0)

\* needle in hay
Contains(hay, needle) ==
    \E i \in 0..(Len(hay) - Len(needle)) : SubSeq(hay, i + 1, i + Len(needle)) = needle

\* str.replace(old, new): every occurrence, left to right, not overlapping
RECURSIVE ReplaceFrom(_, _, _, _)
ReplaceFrom(s, old, new, i) ==
    IF i >= Len(s) THEN ""
    ELSE IF i + Len(old) <= Len(s) /\ SubSeq(s, i + 1, i + Len(old)) = old
         THEN new \o ReplaceFrom(s, old, new, i + Len(old))
         ELSE At(s, i) \o ReplaceFrom(s, old, new, i + 1)
Replace(s, old, new) == ReplaceFrom(s, old, new, 0)

\* str.strip()
RECURSIVE LStrip(_), RStrip(_)
LStrip(s) == IF s # "" /\ At(s, 0) \in SpaceChars THEN LStrip(SubSeq(s, 2, Len(s))) ELSE s
RStrip(s) ==
    IF s # "" /\ At(s, Len(s) - 1) \in SpaceChars THEN RStrip(SubSeq(s, 1, Len(s) - 1)) ELSE s
Strip(s) == LStrip(RStrip(s))

\* str.split(sep) for a one-character separator
RECURSIVE SplitFrom(_, _, _, _)
SplitFrom(s, sep, start, i) ==
    IF i >= Len(s) THEN <<SubSeq(s, start + 1, Len(s))>>
    ELSE IF At(s, i) = sep
         THEN <<SubSeq(s, start + 1, i)>> \o SplitFrom(s, sep, i + 1, i + 1)
         ELSE SplitFrom(s, sep, start, i + 1)
Split(s, sep) == SplitFrom(s, sep, 0, 0)

\* sep.join(parts)
RECURSIVE Join(_, _)
Join(parts, sep) ==
    IF parts = <<>> THEN ""
    ELSE IF Len(parts) = 1 THEN parts[1]
         ELSE parts[1] \o sep \o Join(Tail(parts), sep)

RECURSIVE MapStrip(_)
MapStrip(parts) == IF parts = <<>> THEN <<>> ELSE <<Strip(Head(parts))>> \o MapStrip(Tail(parts))

(***************************************************************************)
(* extract_metals                                                          *)
(***************************************************************************)
Digit == Cls(Digits)
Spaces == Star(Cls(SpaceChars))
KaratUnit == Alt(<<Lit("K"), Lit("CT"), Lit("CARAT")>>)
TwoTone == Cat(<<Lit("TWO"), Cls({"-", " "}), Lit("TONE")>>)

\* the pattern with GOLD optional
KaratGoldOptional ==
    Cat(<<WordB, Rep(Digit, 1, 2), KaratUnit, Spaces,
          Opt(Alt(<<Lit("WHITE"), Lit("YELLOW"), Lit("ROSE"), Lit("STRAWBERRY"), TwoTone>>)),
          Opt(Cat(<<Spaces, Lit("GOLD")>>)), WordB>>)

\* r'\b\d{1,2}(?:K|CT|CARAT)\s*(?:WHITE|YELLOW|ROSE|STRAWBERRY|TWO[- ]TONE)?\s*GOLD\b'
KaratGoldPattern ==
    Cat(<<WordB, Rep(Digit, 1, 2), KaratUnit, Spaces,
          Opt(Alt(<<Lit("WHITE"), Lit("YELLOW"), Lit("ROSE"), Lit("STRAWBERRY"), TwoTone>>)),
          Spaces, Lit("GOLD"), WordB>>)

\* the pattern with its gold names only
MetalNameGoldOnly ==
    Cat(<<WordB,
          Alt(<<Cat(<<Lit("WHITE"), Spaces, Lit("GOLD")>>),
                Cat(<<Lit("YELLOW"), Spaces, Lit("GOLD")>>),
                Cat(<<Lit("ROSE"), Spaces, Lit("GOLD")>>),
                Cat(<<Lit("STRAWBERRY"), Spaces, Lit("GOLD")>>),
                Cat(<<TwoTone, Spaces, Lit("GOLD")>>)>>),
          WordB>>)

\* r'\b(?:PLATINUM|STERLING\s*SILVER|SILVER|WHITE\s*GOLD|YELLOW\s*GOLD|ROSE\s*GOLD|
\*   STRAWBERRY\s*GOLD|TWO[- ]TONE\s*GOLD|TITANIUM|BRASS|PALLADIUM|COPPER|ALLOY)\b'
MetalNamePattern ==
    Cat(<<WordB,
          Alt(<<Lit("PLATINUM"),
                Cat(<<Lit("STERLING"), Spaces, Lit("SILVER")>>),
                Lit("SILVER"),
                Cat(<<Lit("WHITE"), Spaces, Lit("GOLD")>>),
                Cat(<<Lit("YELLOW"), Spaces, Lit("GOLD")>>),
                Cat(<<Lit("ROSE"), Spaces, Lit("GOLD")>>),
                Cat(<<Lit("STRAWBERRY"), Spaces, Lit("GOLD")>>),
                Cat(<<TwoTone, Spaces, Lit("GOLD")>>),
                Lit("TITANIUM"), Lit("BRASS"), Lit("PALLADIUM"), Lit("COPPER"),
                Lit("ALLOY")>>),
          WordB>>)

\* the pattern without its lookbehind
BareKaratUnguarded == Cat(<<WordB, Rep(Digit, 1, 2), KaratUnit, WordB>>)

\* r'(?<![\d.])\b\d{1,2}(?:K|CT|CARAT)\b'
BareKaratPattern ==
    Cat(<<NotBehind(Digits \cup {"."}), WordB, Rep(Digit, 1, 2), KaratUnit, WordB>>)

patterns == <<KaratGoldPattern, MetalNamePattern, BareKaratPattern>>

\* all_matches: the matches of each pattern in turn
RECURSIVE AllMatches(_, _, _)
AllMatches(ps, k, s) ==
    IF k > Len(ps) THEN <<>> ELSE FindAll(ps[k], s) \o AllMatches(ps, k + 1, s)

InSeq(x, sq) == \E i \in DOMAIN sq : sq[i] = x

\* the distinct elements, in order of first occurrence
RECURSIVE Distinct(_, _)
Distinct(sq, acc) ==
    IF sq = <<>> THEN acc
    ELSE Distinct(Tail(sq), IF InSeq(Head(sq), acc) THEN acc ELSE Append(acc, Head(sq)))

RemoveAt(sq, k) == SubSeq(sq, 1, k - 1) \o SubSeq(sq, k + 1, Len(sq))

\* The iteration order of set(all_matches).  CPython orders a set of strings
\* by their hashes, which are salted per process (PYTHONHASHSEED): the order
\* is a permutation of the distinct elements fixed by the process's seed.
\* Seed n selects the n-th permutation (factorial number system).
RECURSIVE SetOrder(_, _)
SetOrder(sq, n) ==
    IF sq = <<>> THEN <<>>
    ELSE LET k == (n % Len(sq)) + 1
         IN <<sq[k]>> \o SetOrder(RemoveAt(sq, k), n \div Len(sq))

\* the sort without reverse=True: shortest first
RECURSIVE InsertByLenShortestFirst(_, _)
InsertByLenShortestFirst(sorted, x) ==
    IF sorted = <<>> THEN <<x>>
    ELSE IF Len(Head(sorted)) <= Len(x)
         THEN <<Head(sorted)>> \o InsertByLenShortestFirst(Tail(sorted), x)
         ELSE <<x>> \o sorted

\* sorted(..., key=len, reverse=True): stable, longest first
RECURSIVE InsertByLen(_, _)
InsertByLen(sorted, x) ==
    IF sorted = <<>> THEN <<x>>
    ELSE IF Len(Head(sorted)) >= Len(x)
         THEN <<Head(sorted)>> \o InsertByLen(Tail(sorted), x)
         ELSE <<x>> \o sorted
RECURSIVE SortedByLen(_, _)
SortedByLen(sq, acc) ==
    IF sq = <<>> THEN acc ELSE SortedByLen(Tail(sq), InsertByLen(acc, Head(sq)))

\* every match is kept
KeepEveryMatch(sq, final) == final \o sq

\* final_matches: a match is kept unless it is inside a match kept before
RECURSIVE KeepNotSubstring(_, _)
KeepNotSubstring(sq, final) ==
    IF sq = <<>> THEN final
    ELSE KeepNotSubstring(Tail(sq),
            IF \E j \in DOMAIN final : Contains(final[j], Head(sq))
            THEN final ELSE Append(final, Head(sq)))

unique_matches(all, hashseed) == SortedByLen(SetOrder(Distinct(all, <<>>), hashseed), <<>>)

\* "if not text"
Falsy(txt) == txt = None \/ txt[1] = ""

\* all_matches, empty for a text that is None or empty
AllMatchesOf(txt) == IF Falsy(txt) THEN <<>> ELSE AllMatches(patterns, 1, Upper(txt[1]))

\* final_matches from all_matches
FinalMatches(all, hashseed) == KeepNotSubstring(unique_matches(all, hashseed), <<>>)

extract_metals(txt, hashseed) == FinalMatches(AllMatchesOf(txt), hashseed)

(***************************************************************************)
(* extract_karat_info                                                      *)
(***************************************************************************)
NamedMetals == <<"PLATINUM", "STERLING SILVER", "SILVER", "TITANIUM", "BRASS",
                 "PALLADIUM", "COPPER", "ALLOY">>

\* the first named metal inside value, "" when there is none
RECURSIVE FirstNamedMetal(_, _)
FirstNamedMetal(value, k) ==
    IF k > Len(NamedMetals) THEN ""
    ELSE IF Contains(value, NamedMetals[k]) THEN NamedMetals[k]
         ELSE FirstNamedMetal(value, k + 1)

\* ' & '.join(p.strip() for p in value.split('&')) when value has an '&'
NormalizeAmpersand(value) ==
    IF Contains(value, "&") THEN Join(MapStrip(Split(value, "&")), " & ") ELSE value

FixConcatenated(value) ==
    Replace(Replace(Replace(Replace(Replace(value,
        "WHITEGOLD", "WHITE GOLD"),
        "YELLOWGOLD", "YELLOW GOLD"),
        "ROSEGOLD", "ROSE GOLD"),
        "TWOTONE", "TWO-TONE GOLD"),
        "TWO TONE", "TWO-TONE")

\* the first substitution only
ConvertUnitOnly(value) ==
    Sub2(Rep(Digit, 1, 2), Alt(<<Lit("CT"), Lit("CARAT")>>), <<[g |-> 1], [s |-> "K"]>>, value)

\* re.sub(r'(\d{1,2})(CT|CARAT)', r'\1K', value)
\* re.sub(r'(\d{1,2}K)([A-Z])', r'\1 \2', value)
ConvertToK(value) ==
    Sub2(Cat(<<Rep(Digit, 1, 2), Lit("K")>>), Cls(UpperLetters),
         <<[g |-> 1], [s |-> " "], [g |-> 2]>>,
         Sub2(Rep(Digit, 1, 2), Alt(<<Lit("CT"), Lit("CARAT")>>),
              <<[g |-> 1], [s |-> "K"]>>, value))

\* r'\bDIAMOND\s+(PLATINUM|STERLING\s+SILVER|SILVER|TITANIUM|BRASS|PALLADIUM|COPPER|ALLOY)\b'
DiamondMetalHead == Cat(<<WordB, Lit("DIAMOND"), Plus(Cls(SpaceChars))>>)
DiamondMetalName ==
    Cat(<<Alt(<<Lit("PLATINUM"),
                Cat(<<Lit("STERLING"), Plus(Cls(SpaceChars)), Lit("SILVER")>>),
                Lit("SILVER"), Lit("TITANIUM"), Lit("BRASS"), Lit("PALLADIUM"),
                Lit("COPPER"), Lit("ALLOY")>>),
          WordB>>)

\* the group of the leftmost match of the fallback pattern, "" when none
RECURSIVE DiamondMetalFrom(_, _)
DiamondMetalFrom(s, i) ==
    IF i > Len(s) THEN ""
    ELSE LET m == Match2(DiamondMetalHead, DiamondMetalName, s, i)
         IN IF m = <<>> THEN DiamondMetalFrom(s, i + 1) ELSE SubSeq(s, m[1] + 1, m[2])

\* the karat branch without value.lower()
NormalizeMetalAsMatched(match) ==
    LET value == Upper(match)
        named == FirstNamedMetal(value, 1)
    IN IF named # "" THEN Lower(named)
       ELSE ConvertToK(FixConcatenated(NormalizeAmpersand(value)))

NormalizeMetal(match) ==
    LET value == Upper(match)
        named == FirstNamedMetal(value, 1)
    IN IF named # "" THEN Lower(named)
       ELSE Lower(ConvertToK(FixConcatenated(NormalizeAmpersand(value))))

\* the word DIAMOND looked for before the metals
KaratInfoDiamondFirst(txt, ms) ==
    IF Falsy(txt) THEN None
    ELSE IF Contains(Upper(txt[1]), "DIAMOND") THEN Some("diamond")
    ELSE IF ms # <<>> THEN Some(NormalizeMetal(ms[1]))
    ELSE None

\* the word DIAMOND looked for in the text as written
KaratInfoCaseSensitive(txt, ms) ==
    IF Falsy(txt) THEN None
    ELSE IF ms # <<>> THEN Some(NormalizeMetal(ms[1]))
    ELSE LET dm == DiamondMetalFrom(Upper(txt[1]), 0)
         IN IF dm # "" THEN Some(Lower(dm))
            ELSE IF Contains(txt[1], "DIAMOND") THEN Some("diamond")
            ELSE None

\* without the final fallback
KaratInfoNoSentinel(txt, ms) ==
    IF Falsy(txt) THEN None
    ELSE IF ms # <<>> THEN Some(NormalizeMetal(ms[1]))
    ELSE LET dm == DiamondMetalFrom(Upper(txt[1]), 0)
         IN IF dm # "" THEN Some(Lower(dm)) ELSE None

\* extract_karat_info once extract_metals has returned ms
KaratInfoOf(txt, ms) ==
    IF Falsy(txt) THEN None
    ELSE IF ms # <<>> THEN Some(NormalizeMetal(ms[1]))
    ELSE LET dm == DiamondMetalFrom(Upper(txt[1]), 0)
         IN IF dm # "" THEN Some(Lower(dm))
            ELSE IF Contains(Upper(txt[1]), "DIAMOND") THEN Some("diamond")
            ELSE None

extract_karat_info(txt, hashseed) == KaratInfoOf(txt, extract_metals(txt, hashseed))

(***************************************************************************)
(* parse_ct                                                                *)
(***************************************************************************)
DigitSeq == <<"0", "1", "2", "3", "4", "5", "6", "7", "8", "9">>
DigitValue(c) == (CHOOSE i \in 1..10 : DigitSeq[i] = c) - 1

\* int() of a string of digits
RECURSIVE ToInt(_, _, _)
ToInt(s, i, acc) ==
    IF i > Len(s) THEN acc ELSE ToInt(s, i + 1, 10 * acc + DigitValue(SubSeq(s, i, i)))

RECURSIVE Pow10(_)
Pow10(k) == IF k = 0 THEN 1 ELSE 10 * Pow10(k - 1)

\* A number is the fraction n/d, d > 0.  float() of digits with at most one
\* '.': the digits without the point over ten to the number of decimals.
Float(s) ==
    LET parts == Split(s, ".")
    IN IF Len(parts) = 1 THEN [n |-> ToInt(s, 1, 0), d |-> 1]
       ELSE [n |-> ToInt(parts[1] \o parts[2], 1, 0), d |-> Pow10(Len(parts[2]))]

\* a / b, None for the ZeroDivisionError
Divide(a, b) == IF b.n = 0 THEN None ELSE Some([n |-> a.n * b.d, d |-> a.d * b.n])
Plus2(w, q) == [n |-> w * q.d + q.n, d |-> q.d]
Less(a, b) == a.n * b.d < b.n * a.d

\* the exception raised inside the try block of parse_ct, None when there is
\* none: a zero denominator makes the division raise
ConversionError(val) ==
    IF Contains(val, "/")
    THEN LET frac == IF Contains(val, "-") THEN Split(val, "-")[2] ELSE val
         IN IF Float(Split(frac, "/")[2]).n = 0 THEN Some("ZeroDivisionError") ELSE None
    ELSE None

\* "except ValueError": the clause lets a ZeroDivisionError through
CaughtValueErrorOnly(e) == e = "ValueError"

\* "except Exception": the clause catches every exception the block raises
CaughtByExcept(e) == e \in {"ZeroDivisionError", "ValueError", "TypeError"}

\* parse_ct without the branch for composite fractions: '1-3/4' is split at
\* '/' and float('1-3') raises
parse_ct_no_composite(val) ==
    IF Contains(val, "-") THEN None
    ELSE IF Contains(val, "/")
         THEN LET nd == Split(val, "/") IN Divide(Float(nd[1]), Float(nd[2]))
         ELSE Some(Float(val))

\* parse_ct: Some(value), None when the conversion raises
parse_ct(val) ==
    IF Contains(val, "-") /\ Contains(val, "/")
    THEN LET wf == Split(val, "-")
             nd == Split(wf[2], "/")
             q == Divide(Float(nd[1]), Float(nd[2]))
         IN IF q = None THEN None ELSE Some(Plus2(ToInt(wf[1], 1, 0), q[1]))
    ELSE IF Contains(val, "/")
         THEN LET nd == Split(val, "/") IN Divide(Float(nd[1]), Float(nd[2]))
         ELSE Some(Float(val))

(***************************************************************************)
(* standardize_diawt_value                                                 *)
(***************************************************************************)
\* re.sub of a pattern without groups by a fixed string
RECURSIVE SubAllFrom(_, _, _, _)
SubAllFrom(r, repl, s, i) ==
    IF i >= Len(s) THEN ""
    ELSE LET e == MatchEnd(r, s, i)
         IN IF e <= i THEN At(s, i) \o SubAllFrom(r, repl, s, i + 1)
            ELSE repl \o SubAllFrom(r, repl, s, e)
SubAll(r, repl, s) == SubAllFrom(r, repl, s, 0)

\* r'(\d+-\d+/\d+|\d+/\d+|\d*\.\d+|\d+)'
NumberPattern ==
    Alt(<<Cat(<<Plus(Digit), Lit("-"), Plus(Digit), Lit("/"), Plus(Digit)>>),
          Cat(<<Plus(Digit), Lit("/"), Plus(Digit)>>),
          Cat(<<Star(Digit), Lit("."), Plus(Digit)>>),
          Plus(Digit)>>)

TwMarkers == <<" tw", "tw", "t.w.", "ctw">>

\* the value returned with its spacing and unit as normalised so far
StandardizeSpacingOnly(v) ==
    IF v = "" THEN None
    ELSE Some(SubAll(Plus(Cls(SpaceChars)), " ", Lower(Strip(v))))

standardize_diawt_value(v) ==
    IF v = "" THEN None
    ELSE LET low == Lower(Strip(v))
             slashed == SubAll(Cat(<<Spaces, Lit("/"), Spaces>>), "/", low)
             value == SubAll(Plus(Cls(SpaceChars)), " ", slashed)
             has_tw == \E k \in DOMAIN TwMarkers : Contains(value, TwMarkers[k])
             num_match == Search(NumberPattern, value)
         IN IF num_match = <<>> THEN None
            ELSE LET num_part == SubSeq(value, num_match[1] + 1, num_match[2])
                 IN Some(num_part \o (IF has_tw THEN "ct tw" ELSE "ct"))

(***************************************************************************)
(* extract_diamond_weight                                                  *)
(***************************************************************************)
\* r'^\s*\d{1,2}(?:K|CT|CARAT)(?:\s*(?:[A-Z]+\s*&\s*[A-Z]+|ROSE|WHITE|YELLOW|
\*   STRAWBERRY|TWO-TONE)\s*GOLD)?\s*'
\* the pattern with the colour and GOLD required
LeadingMetalWithGold ==
    Cat(<<Bol, Spaces, Rep(Digit, 1, 2), KaratUnit,
          Spaces,
          Alt(<<Cat(<<Plus(Cls(UpperLetters)), Spaces, Lit("&"), Spaces,
                      Plus(Cls(UpperLetters))>>),
                Lit("ROSE"), Lit("WHITE"), Lit("YELLOW"), Lit("STRAWBERRY"),
                Lit("TWO-TONE")>>),
          Spaces, Lit("GOLD"),
          Spaces>>)

LeadingMetalPattern ==
    Cat(<<Bol, Spaces, Rep(Digit, 1, 2), KaratUnit,
          Opt(Cat(<<Spaces,
                    Alt(<<Cat(<<Plus(Cls(UpperLetters)), Spaces, Lit("&"), Spaces,
                                Plus(Cls(UpperLetters))>>),
                          Lit("ROSE"), Lit("WHITE"), Lit("YELLOW"), Lit("STRAWBERRY"),
                          Lit("TWO-TONE")>>),
                    Spaces, Lit("GOLD")>>)),
          Spaces>>)

\* no strip at all
StripNothing(up) == up

\* re.sub(LeadingMetalPattern, '', text): the pattern can match at offset 0 only

StripLeadingMetal(up) ==
    LET e == MatchEnd(LeadingMetalPattern, up, 0)
    IN IF e <= 0 THEN up ELSE SubSeq(up, e + 1, Len(up))

\* the same without text.replace(',', '.')
MetalFreeKeepComma(txt) == IF Falsy(txt) THEN "" ELSE StripLeadingMetal(Upper(txt[1]))

\* metal_free_text: the text uppercased, ',' replaced by '.', then stripped
MetalFreeOf(txt) ==
    IF Falsy(txt) THEN "" ELSE StripLeadingMetal(Replace(Upper(txt[1]), ",", "."))

Exclusions == <<"CUBIC ZIRCONIA", "SAPPHIRE", "CREATED">>

\* r'(CTW|CT\s*TW|CT|CARAT\s*TW|CARAT|CT\.*\s*T*W*\.?)'
UnitPattern ==
    Alt(<<Lit("CTW"),
          Cat(<<Lit("CT"), Spaces, Lit("TW")>>),
          Lit("CT"),
          Cat(<<Lit("CARAT"), Spaces, Lit("TW")>>),
          Lit("CARAT"),
          Cat(<<Lit("CT"), Star(Lit(".")), Spaces, Star(Lit("T")), Star(Lit("W")),
                Opt(Lit("."))>>)>>)

\* (NumberPattern)\s*(UnitPattern) at offset i: the first way to match, as
\* <<end of the number, start of the unit, end of the unit>>, <<>> when none
RECURSIVE FirstUnit(_, _, _, _), FirstMention(_, _, _)
FirstUnit(starts, j, e1, s) ==
    IF j > Len(starts) THEN <<>>
    ELSE LET e2 == MatchEnd(UnitPattern, s, starts[j])
         IN IF e2 < 0 THEN FirstUnit(starts, j + 1, e1, s) ELSE <<e1, starts[j], e2>>
FirstMention(es, j, s) ==
    IF j > Len(es) THEN <<>>
    ELSE LET m == FirstUnit(Ends(Spaces, s, es[j]), 1, es[j], s)
         IN IF m = <<>> THEN FirstMention(es, j + 1, s) ELSE m

\* re.findall of the carat pattern: the (val, unit) pairs, left to right
RECURSIVE MentionsFrom(_, _)
MentionsFrom(s, i) ==
    IF i >= Len(s) THEN <<>>
    ELSE LET m == FirstMention(Ends(NumberPattern, s, i), 1, s)
         IN IF m = <<>> THEN MentionsFrom(s, i + 1)
            ELSE <<[val |-> SubSeq(s, i + 1, m[1]), unit |-> SubSeq(s, m[2] + 1, m[3])]>>
                 \o MentionsFrom(s, m[3])
FindMentions(mft) == MentionsFrom(mft, 0)

\* a guard that knows the first exclusion only
ExcludedFirstOnly(mft) == Contains(mft, Exclusions[1])

Excluded(mft) == \E k \in DOMAIN Exclusions : Contains(mft, Exclusions[k])

MaxCt == 5

\* ct_val <= 5.0
AtMostMaxCt(v) == ~Less([n |-> MaxCt, d |-> 1], v)

\* ct_val < 5.0
BelowMaxCt(v) == Less(v, [n |-> MaxCt, d |-> 1])

\* a failed conversion ends the loop
RECURSIVE ValidCtsUntilFailure(_)
ValidCtsUntilFailure(ms) ==
    IF ms = <<>> THEN <<>>
    ELSE LET ct_val == parse_ct(Head(ms).val)
         IN IF ct_val = None THEN <<>>
            ELSE (IF BelowMaxCt(ct_val[1])
                  THEN <<[val |-> Strip(Head(ms).val), unit |-> Strip(Head(ms).unit),
                          ct |-> ct_val[1]]>>
                  ELSE <<>>)
                 \o ValidCtsUntilFailure(Tail(ms))

\* diamond_cts: the mentions whose value parses and is below 5.0
RECURSIVE ValidCts(_)
ValidCts(ms) ==
    IF ms = <<>> THEN <<>>
    ELSE LET ct_val == parse_ct(Head(ms).val)
         IN (IF ct_val # None /\ BelowMaxCt(ct_val[1])
             THEN <<[val |-> Strip(Head(ms).val), unit |-> Strip(Head(ms).unit),
                     ct |-> ct_val[1]]>>
             ELSE <<>>)
            \o ValidCts(Tail(ms))

\* min(diamond_cts, key=lambda x: x[2]): the first of the smallest
RECURSIVE MinCt(_, _)
MinCt(cts, best) ==
    IF cts = <<>> THEN best
    ELSE MinCt(Tail(cts), IF Less(Head(cts).ct, best.ct) THEN Head(cts) ELSE best)
\* the first candidate, whatever its value
FirstCandidate(cts) == Head(cts)

smallest(cts) == MinCt(Tail(cts), Head(cts))

\* extract_diamond_weight from the stripped text on; the (val, unit) pairs
\* are searched only when no exclusion word is present
MatchesOf(txt, mft) == IF Falsy(txt) \/ Excluded(mft) THEN <<>> ELSE FindMentions(mft)

WeightOf(txt, mft, cts) ==
    IF Falsy(txt) \/ Excluded(mft) \/ cts = <<>> THEN None
    ELSE standardize_diawt_value(smallest(cts).val \o " " \o smallest(cts).unit)

extract_diamond_weight(txt) ==
    WeightOf(txt, MetalFreeOf(txt), ValidCts(MatchesOf(txt, MetalFreeOf(txt))))

(***************************************************************************)
(* Exceptions that leave the extractors.                                   *)
(***************************************************************************)
\* text.upper(): None has no such method
UpperError(txt) == IF txt = None THEN Some("AttributeError") ELSE None

\* extract_karat_info: the guard returns before text.upper() is reached
KaratInfoError(txt) == IF Falsy(txt) THEN None ELSE UpperError(txt)

\* extract_diamond_weight: the first exception of a conversion that the except
\* clause of parse_ct does not catch
WeightError(txt, ms) ==
    LET uncaught == {k \in DOMAIN ms : /\ ConversionError(ms[k].val) # None
                                       /\ ~CaughtByExcept(ConversionError(ms[k].val)[1])}
    IN IF Falsy(txt) THEN None
       ELSE IF UpperError(txt) # None THEN UpperError(txt)
       ELSE IF uncaught = {} THEN None
       ELSE ConversionError(ms[CHOOSE k \in uncaught : \A j \in uncaught : k <= j].val)

(***************************************************************************)
(* Persistence: process_row, insert_into_db, update_product_count.         *)
(***************************************************************************)
NameLimit == 500

\* s[:n]
Truncate(s, n) == IF Len(s) > n THEN SubSeq(s, 1, n) ELSE s

\* process_row with the Kt and TotalDiaWt the adapter scraped
process_row_as_scraped(row, hashseed) ==
    IF row.page_title = None \/ row.product_name = None THEN None
    ELSE Some([Header |-> Truncate(row.page_title[1], NameLimit),
               ProductName |-> Truncate(row.product_name[1], NameLimit),
               Kt |-> row.gold_type,
               TotalDiaWt |-> row.diamond_weight])

\* process_row: the tuple to insert, None when building it raises (a field
\* that is None cannot be sliced)
process_row(row, hashseed) ==
    IF row.page_title = None \/ row.product_name = None THEN None
    ELSE Some([Header |-> Truncate(row.page_title[1], NameLimit),
               ProductName |-> Truncate(row.product_name[1], NameLimit),
               Kt |-> extract_karat_info(row.product_name, hashseed),
               TotalDiaWt |-> extract_diamond_weight(row.product_name)])

\* processed_data: the tuples of the rows process_row accepted
RECURSIVE ProcessedData(_, _)
ProcessedData(data, hashseed) ==
    IF data = <<>> THEN <<>>
    ELSE LET t == process_row(Head(data), hashseed)
         IN (IF t = None THEN <<>> ELSE t) \o ProcessedData(Tail(data), hashseed)

\* insert_into_db on a connection in autocommit mode: the rows sent before
\* the failure stay
insert_autocommit(table, data, fault, hashseed) ==
    LET Outcome(processed_data) ==
            IF data = <<>>
            THEN [table |-> table, conn |-> "none", raised |-> None, accepted |-> 0]
            ELSE IF fault = "connect"
            THEN [table |-> table, conn |-> "none", raised |-> Some("UnboundLocalError"),
                  accepted |-> 0]
            ELSE IF processed_data # <<>> /\ fault = "executemany"
            THEN [table |-> table \o <<Head(processed_data)>>, conn |-> "closed",
                  raised |-> None, accepted |-> Len(processed_data)]
            ELSE IF processed_data # <<>> /\ fault = "commit"
            THEN [table |-> table, conn |-> "closed", raised |-> None,
                  accepted |-> Len(processed_data)]
            ELSE [table |-> table \o processed_data, conn |-> "closed", raised |-> None,
                  accepted |-> Len(processed_data)]
    IN CHOOSE o \in {Outcome(pd) : pd \in {ProcessedData(data, hashseed)}} : TRUE

\* insert_into_db(data) on the table, with the failure the database shows in
\* this call: the table after the call, the state of the connection ("none":
\* never opened), the exception that leaves the call, and the number of rows
\* process_row accepted
insert_into_db(table, data, fault, hashseed) ==
    LET Outcome(processed_data) ==
            IF data = <<>>
            THEN [table |-> table, conn |-> "none", raised |-> None, accepted |-> 0]
            ELSE IF fault = "connect"
            \* get_db_connection raises inside the try; conn was never bound,
            \* and "if conn" in the handler and in finally raises
            \* UnboundLocalError
            THEN [table |-> table, conn |-> "none", raised |-> Some("UnboundLocalError"),
                  accepted |-> 0]
            ELSE IF processed_data # <<>> /\ fault \in {"executemany", "commit"}
            \* rollback, then close
            THEN [table |-> table, conn |-> "closed", raised |-> None,
                  accepted |-> Len(processed_data)]
            ELSE [table |-> table \o processed_data, conn |-> "closed", raised |-> None,
                  accepted |-> Len(processed_data)]
    \* processed_data is computed once
    IN CHOOSE o \in {Outcome(pd) : pd \in {ProcessedData(data, hashseed)}} : TRUE

\* update_product_count(count): the monthly count after the call and the
\* exception that leaves the call
update_product_count(month, count, fault) ==
    IF count <= 0 THEN [month |-> month, raised |-> None]
    ELSE IF fault = "count" THEN [month |-> month, raised |-> Some("DatabaseError")]
    ELSE [month |-> month + count, raised |-> None]

(***************************************************************************)
(* The save request: detect_website, create_parser,                        *)
(* parse_and_save_products, save_scraped_data.                             *)
(***************************************************************************)
Sites ==
    <<[domain |-> "www.michaelhill.com.au", parser |-> "MichaelHillParser"],
      [domain |-> "www.jared.com", parser |-> "JaredParser"],
      [domain |-> "www.kay.com", parser |-> "KayParser"],
      [domain |-> "www.zales.com", parser |-> "ZalesParser"],
      [domain |-> "www.kayoutlet.com", parser |-> "KayOutletParser"],
      [domain |-> "www.fredmeyerjewelers.com", parser |-> "FredMeyerJewelersParser"],
      [domain |-> "www.jcpenney.com", parser |-> "JCPenneyParser"],
      [domain |-> "www.macys.com", parser |-> "MacysParser"],
      [domain |-> "www.peoplesjewellers.com", parser |-> "PeoplesJewellersParser"],
      [domain |-> "www.shaneco.com", parser |-> "ShaneCoScraper"],
      [domain |-> "www.tiffany.com", parser |-> "TiffanyScraper"],
      [domain |-> "www.chanel.com", parser |-> "ChanelScraper"],
      [domain |-> "www.chaumet.com", parser |-> "ChaumetScraper"],
      [domain |-> "www.vancleefarpels.com", parser |-> "VanCleefArpelsScraper"],
      [domain |-> "www.bulgari.com", parser |-> "BulgariScraper"],
      [domain |-> "in.louisvuitton.com", parser |-> "LouisVuittonScraper"],
      [domain |-> "www.prouds.com.au", parser |-> "ProudsScraper"],
      [domain |-> "www.goldmark.com.au", parser |-> "GoldmarkScraper"],
      [domain |-> "www.anguscoote.com.au", parser |-> "AngusCooteScraper"],
      [domain |-> "www.fields.ie", parser |-> "FieldsScraper"],
      [domain |-> "hoskings.com.au", parser |-> "HoskingsScraper"]>>

\* the first site whose domain is inside s, 0 when there is none
RECURSIVE FirstSite(_, _)
FirstSite(s, k) ==
    IF k > Len(Sites) THEN 0
    ELSE IF Contains(s, Sites[k].domain) THEN k ELSE FirstSite(s, k + 1)

\* urlparse(url).netloc: what stands between "//" and the next "/", "?" or
\* "#"; empty when the URL has no "//"
RECURSIVE NetlocEnd(_, _)
NetlocEnd(url, i) ==
    IF i >= Len(url) \/ At(url, i) \in {"/", "?", "#"} THEN i ELSE NetlocEnd(url, i + 1)
Netloc(url) ==
    LET m == Search(Lit("//"), url)
    IN IF m = <<>> THEN "" ELSE SubSeq(url, m[2] + 1, NetlocEnd(url, m[2]))

detect_website(website_url) ==
    IF Falsy(website_url) THEN "unknown"
    ELSE LET k == FirstSite(Lower(Netloc(website_url[1])), 1)
         IN IF k = 0 THEN "unknown" ELSE Sites[k].domain

\* a factory that falls back on a parser object for unknown sites
create_parser_with_default(website_type) ==
    LET k == FirstSite(website_type, 1)
    IN IF k = 0 THEN "MacysParser" ELSE Sites[k].parser

\* create_parser: the class of the parser object; for an unknown site the
\* string 'unknown', which is no parser object
create_parser(website_type) ==
    LET k == FirstSite(website_type, 1)
    IN IF k = 0 THEN "unknown" ELSE Sites[k].parser

RecordNameLimit == 495

\* database_records: one record per product tile
RECURSIVE DatabaseRecords(_, _)
DatabaseRecords(tiles, page_title) ==
    IF tiles = <<>> THEN <<>>
    ELSE <<[page_title |-> page_title,
            product_name |-> Some(Truncate(Head(tiles).product_name, RecordNameLimit)),
            gold_type |-> Head(tiles).gold_type,
            diamond_weight |-> Head(tiles).diamond_weight]>>
         \o DatabaseRecords(Tail(tiles), page_title)

\* parse_and_save_products: the spreadsheet is saved, the records are
\* inserted, then the monthly count is updated by the number of records; an
\* exception of either call gives a result with 'error'
parse_and_save_products(s, tiles, page_title, fault, hashseed) ==
    LET database_records == DatabaseRecords(tiles, page_title)
        Result(ins) ==
            LET upd == IF ins.raised # None THEN [month |-> s.month, raised |-> None]
                       ELSE update_product_count(s.month, Len(database_records), fault)
            IN [table |-> ins.table, month |-> upd.month, conn |-> ins.conn,
                raised |-> ins.raised, accepted |-> ins.accepted,
                records |-> Len(database_records), files |-> 1,
                error |-> ins.raised # None \/ upd.raised # None]
    IN CHOOSE r \in {Result(ins) :
                        ins \in {insert_into_db(s.table, database_records, fault, hashseed)}} :
           TRUE

\* the requests: the page URL (None for null, "Unknown Page" when the field is
\* missing), the page title, the product tiles of the page with the gold_type
\* and diamond_weight the adapter's own patterns give, the failure the
\* database shows while the request is served
PageUrls == {None, Some("Unknown Page"), Some("https://www.macys.com/shop/rings"),
             Some("https://shop.example.com/www.macys.com")}
PageTitles == {None, Some("Rings")}
Tiles == {[product_name |-> "14K White Gold 1/2 ct tw", gold_type |-> Some("14K"),
           diamond_weight |-> Some("1/2 ct")],
          [product_name |-> "Platinum Ring", gold_type |-> Some("Platinum"),
           diamond_weight |-> Some("N/A")]}
\* the tiles of a page: none, one, or the two of them
Pages == {<<>>} \cup {<<t>> : t \in Tiles}
         \cup {<<[product_name |-> "14K White Gold 1/2 ct tw", gold_type |-> Some("14K"),
                  diamond_weight |-> Some("1/2 ct")],
                 [product_name |-> "Platinum Ring", gold_type |-> Some("Platinum"),
                  diamond_weight |-> Some("N/A")]>>}
Faults == {"none", "connect", "executemany", "commit", "count"}

\* the service before any request
IdleService == [table |-> <<>>, month |-> 0, requests |-> 0, status |-> 0, url |-> None,
                products |-> 0, parsed |-> FALSE, files |-> 0, conn |-> "none",
                raised |-> None, accepted |-> 0, records |-> 0, inserted |-> 0,
                counted |-> 0]

(***************************************************************************)
(* Product names: words of a vocabulary joined by single spaces.           *)
(***************************************************************************)
Texts(vocab, maxWords) ==
    {Join(ws, " ") : ws \in UNION {[1..n -> vocab] : n \in 0..maxWords}}

MetalVocab == {"14K", "18CT", "9CARATGold", "White Gold", "Rose &", "Sterling Silver",
               "Platinum", "Titanium", "Diamond", "Ring"}

CaratVocab == {"2 ct", "0.25 ct", "1/2 ct tw", "1-3/4 ct", "1.5 Carat TW", "0,50 ct",
               "5 ct", "6 ct", "1/2 CT.TW.", "14K White Gold", "1CT",
               "Cubic Zirconia", "created", "Sapphire"}

RerunVocab == {"Platinum", "Titanium", "14K", "White Gold", "Ring"}

\* tokens of malformed product names
MalformedVocab == {"1/0 ct", "1/4 ct", "2-1/0 ct", "0/0ct", "1-2-3/4 ct", "and", "/", "-",
                   ".", ",", "ct", "Ring,5 ct"}

\* karat numbers, carat numbers and colours without GOLD
KaratVocab == {"14K", "White", "Gold", "Ring", "2.14CT", "114K", "Diamond", "Platinum"}

HashSeeds == 0..(NumHashSeeds - 1)

\* the product names of requests served at the same time
ConcurrentTexts == {None, Some("14K White Gold 1/2 ct tw"), Some("Platinum Ring 2 ct 0.25 ct"),
                    Some("Diamond Ring")}

(***************************************************************************)
(* The calls.                                                              *)
(***************************************************************************)
\* the request threads
Callers == 1..NumCallers

\* the frame of a caller that is in no call
IdleFrame == [pc |-> "idle", fn |-> "", text |-> None, all_matches |-> <<>>, metals |-> <<>>,
              metal_free_text |-> "", matches |-> <<>>, result |-> None]

InitWith(texts, seeds) ==
    /\ text \in {None} \cup {Some(t) : t \in texts}
    /\ seed \in seeds
    /\ pc = "ready"
    /\ kt = None
    /\ wt = None
    /\ runs = <<>>
    /\ all_matches = <<>>
    /\ metals = <<>>
    /\ metal_free_text = ""
    /\ matches = <<>>
    /\ diamond_cts = <<>>
    /\ exc = None
    /\ calls = [c \in Callers |-> IdleFrame]
    /\ svc = IdleService

\* kt = extract_karat_info(text)
CallExtractKaratInfo ==
    /\ pc = "ready"
    /\ all_matches' = AllMatchesOf(text)
    /\ metals' = FinalMatches(all_matches', seed)
    /\ exc' = KaratInfoError(text)
    /\ kt' = IF exc' = None THEN KaratInfoOf(text, metals') ELSE None
    /\ runs' = Append(runs, kt')
    /\ pc' = "done"
    /\ UNCHANGED <<text, seed, wt, metal_free_text, matches, diamond_cts, calls, svc>>

\* wt = extract_diamond_weight(text)
CallExtractDiamondWeight ==
    /\ pc = "ready"
    /\ metal_free_text' = MetalFreeOf(text)
    /\ matches' = MatchesOf(text, metal_free_text')
    /\ diamond_cts' = ValidCts(matches')
    /\ exc' = WeightError(text, matches')
    /\ wt' = IF exc' = None THEN WeightOf(text, metal_free_text', diamond_cts') ELSE None
    /\ runs' = Append(runs, wt')
    /\ pc' = "done"
    /\ UNCHANGED <<text, seed, kt, all_matches, metals, calls, svc>>

\* the caller goes on to the next call in the same process
Return ==
    /\ pc = "done"
    /\ Len(runs) < MaxRuns
    /\ pc' = "ready"
    /\ UNCHANGED <<text, seed, kt, wt, runs, all_matches, metals, metal_free_text,
                   matches, diamond_cts, exc, calls, svc>>

\* the service is restarted: the new process has a hash seed of its own
Restart ==
    /\ pc = "done"
    /\ Len(runs) < MaxRuns
    /\ \E s \in HashSeeds \ {seed} : seed' = s
    /\ pc' = "ready"
    /\ UNCHANGED <<text, kt, wt, runs, all_matches, metals, metal_free_text,
                   matches, diamond_cts, exc, calls, svc>>

\* the metal extractor, one call per product name
InitMetal == InitWith(Texts(MetalVocab, MaxMetalWords), HashSeeds)
NextMetal == CallExtractKaratInfo
SpecMetal == InitMetal /\ [][NextMetal]_vars

\* the weight extractor, one call per product name
InitCarat == InitWith(Texts(CaratVocab, MaxCaratWords), {0})
NextCarat == CallExtractDiamondWeight
SpecCarat == InitCarat /\ [][NextCarat]_vars

\* the metal extractor called repeatedly, in one process and across restarts
InitRerun == InitWith(Texts(RerunVocab, MaxRerunWords), HashSeeds)
NextRerun == CallExtractKaratInfo \/ Return \/ Restart
SpecRerun == InitRerun /\ [][NextRerun]_vars

(***************************************************************************)
(* Concurrent calls: each call runs in steps on the locals of its own      *)
(* frame, and the steps of different callers interleave.                   *)
(***************************************************************************)
\* every frame is the module's one set of globals
SharedLocals(c) == calls[1]

\* the locals a step of caller c reads: those of its own frame
Locals(c) == calls[c]

\* caller c calls one of the extractors on a product name
Begin(c) ==
    /\ calls[c].pc = "idle"
    /\ \E fn \in {"extract_karat_info", "extract_diamond_weight"}, txt \in ConcurrentTexts :
          calls' = [calls EXCEPT ![c] = [IdleFrame EXCEPT !.pc = "called", !.fn = fn,
                                                          !.text = txt]]
    /\ UNCHANGED <<text, seed, pc, kt, wt, runs, all_matches, metals, metal_free_text,
                   matches, diamond_cts, exc, svc>>

\* metals = extract_metals(text)
MetalsStep(c) ==
    /\ calls[c].pc = "called"
    /\ calls[c].fn = "extract_karat_info"
    /\ calls' = [calls EXCEPT ![c].pc = "matched",
                              ![c].all_matches = AllMatchesOf(Locals(c).text),
                              ![c].metals = FinalMatches(AllMatchesOf(Locals(c).text), seed)]
    /\ UNCHANGED <<text, seed, pc, kt, wt, runs, all_matches, metals, metal_free_text,
                   matches, diamond_cts, exc, svc>>

\* the rest of extract_karat_info
KaratStep(c) ==
    /\ calls[c].pc = "matched"
    /\ calls' = [calls EXCEPT ![c].pc = "done",
                              ![c].result = KaratInfoOf(Locals(c).text, Locals(c).metals)]
    /\ UNCHANGED <<text, seed, pc, kt, wt, runs, all_matches, metals, metal_free_text,
                   matches, diamond_cts, exc, svc>>

\* metal_free_text = re.sub(...)
StripStep(c) ==
    /\ calls[c].pc = "called"
    /\ calls[c].fn = "extract_diamond_weight"
    /\ calls' = [calls EXCEPT ![c].pc = "stripped",
                              ![c].metal_free_text = MetalFreeOf(Locals(c).text)]
    /\ UNCHANGED <<text, seed, pc, kt, wt, runs, all_matches, metals, metal_free_text,
                   matches, diamond_cts, exc, svc>>

\* the rest of extract_diamond_weight
WeightStep(c) ==
    /\ calls[c].pc = "stripped"
    /\ LET ms == MatchesOf(Locals(c).text, Locals(c).metal_free_text)
       IN calls' = [calls EXCEPT ![c].pc = "done",
                                 ![c].matches = ms,
                                 ![c].result = WeightOf(Locals(c).text,
                                                        Locals(c).metal_free_text,
                                                        ValidCts(ms))]
    /\ UNCHANGED <<text, seed, pc, kt, wt, runs, all_matches, metals, metal_free_text,
                   matches, diamond_cts, exc, svc>>

InitConcurrent == InitWith({}, {0})
NextConcurrent ==
    \E c \in Callers :
        Begin(c) \/ MetalsStep(c) \/ KaratStep(c) \/ StripStep(c) \/ WeightStep(c)
SpecConcurrent == InitConcurrent /\ [][NextConcurrent]_vars

\* the metal extractor on names with karat and carat numbers
InitKarat == InitWith(Texts(KaratVocab, MaxKaratWords), HashSeeds)
NextKarat == CallExtractKaratInfo
SpecKarat == InitKarat /\ [][NextKarat]_vars

(***************************************************************************)
(* The save requests, served one after the other.                          *)
(***************************************************************************)
\* the answer of save_scraped_data that ran no parser
Refused(code, pageUrl, products) ==
    [svc EXCEPT !.requests = @ + 1, !.status = code, !.url = pageUrl,
                !.products = products, !.parsed = FALSE, !.files = 0, !.conn = "none",
                !.raised = None, !.accepted = 0, !.records = 0, !.inserted = 0,
                !.counted = 0]

\* POST /api/scrape/save, with products entries in the body (a body without
\* products is refused with 400)
save_scraped_data ==
    /\ svc.requests < MaxRequests
    /\ \E products \in 0..1, pageUrl \in PageUrls :
          IF products = 0 THEN svc' = Refused(400, pageUrl, products)
          \* the string 'unknown' has no parse_and_save_products
          ELSE IF create_parser(detect_website(pageUrl)) = "unknown"
          THEN svc' = Refused(500, pageUrl, products)
          ELSE \E page_title \in PageTitles, tiles \in Pages, fault \in Faults :
               \E r \in {parse_and_save_products(svc, tiles, page_title, fault, seed)} :
                  svc' = [table |-> r.table, month |-> r.month,
                          requests |-> svc.requests + 1,
                          status |-> IF r.error THEN 500 ELSE 200, url |-> pageUrl,
                          products |-> products, parsed |-> TRUE, files |-> r.files,
                          conn |-> r.conn, raised |-> r.raised, accepted |-> r.accepted,
                          records |-> r.records,
                          inserted |-> Len(r.table) - Len(svc.table),
                          counted |-> r.month - svc.month]
    /\ UNCHANGED <<text, seed, pc, kt, wt, runs, all_matches, metals, metal_free_text,
                   matches, diamond_cts, exc, calls>>

InitService == InitWith({}, {0})
NextService == save_scraped_data
SpecService == InitService /\ [][NextService]_vars

\* either extractor, one call per malformed product name
InitMalformed == InitWith(Texts(MalformedVocab, MaxMalformedWords), {0})
NextMalformed == CallExtractKaratInfo \/ CallExtractDiamondWeight
SpecMalformed == InitMalformed /\ [][NextMalformed]_vars

(***************************************************************************)
(* Properties of extract_karat_info.                                       *)
(***************************************************************************)
Colours == Alt(<<Lit("WHITE"), Lit("YELLOW"), Lit("ROSE"), Lit("STRAWBERRY"), TwoTone>>)

\* a karat number directly followed by a colour and the word GOLD
KaratColourGold ==
    Cat(<<WordB, Rep(Digit, 1, 2), KaratUnit, Spaces, Colours, Spaces, Lit("GOLD"), WordB>>)

\* a karat number followed by two colours joined by '&' and GOLD
KaratCompoundGold ==
    Cat(<<WordB, Rep(Digit, 1, 2), KaratUnit, Spaces, Colours, Spaces, Lit("&"), Spaces,
          Colours, Spaces, Lit("GOLD"), WordB>>)

\* the karat number of a phrase, and what follows its unit
KaratDigits(p) == IF At(p, 1) \in Digits THEN SubSeq(p, 1, 2) ELSE SubSeq(p, 1, 1)
AfterKaratUnit(p) ==
    LET rest == SubSeq(p, Len(KaratDigits(p)) + 1, Len(p))
        unit == IF SubSeq(rest, 1, 1) = "K" THEN 1
                ELSE IF SubSeq(rest, 1, 2) = "CT" THEN 2 ELSE 5
    IN SubSeq(rest, unit + 1, Len(rest))

\* a phrase as a designation: its number, k, and the rest in lowercase
Designation(p) == KaratDigits(p) \o "k" \o Lower(AfterKaratUnit(p))

Phrases == IF Falsy(text) THEN <<>> ELSE FindAll(KaratColourGold, Upper(text[1]))

LongestMatch(p) ==
    \A j \in DOMAIN all_matches : all_matches[j] = p \/ Len(all_matches[j]) < Len(p)

\* C1 as stated: whenever the text holds a karat number directly followed by
\* a colour and GOLD, the result is that full phrase.
C1_PhraseAlwaysWins ==
    pc = "done" => \A i \in DOMAIN Phrases : kt = Some(Designation(Phrases[i]))

\* C1, amended: a karat+colour+GOLD phrase that is longer than every other
\* metal match of the text is returned whole (lowercase, unit written k), and
\* no phrase is ever replaced by its own bare karat or its own colour+GOLD.
C1_LongestPhraseWins ==
    pc = "done" =>
        \A i \in DOMAIN Phrases :
            /\ LongestMatch(Phrases[i]) => kt = Some(Designation(Phrases[i]))
            /\ kt # Some(KaratDigits(Phrases[i]) \o "k")
            /\ kt # Some(Lower(Strip(AfterKaratUnit(Phrases[i]))))

C1_Witness ==
    /\ pc = "done"
    /\ text = Some("14K White Gold Ring")
    /\ kt = Some("14k white gold")

\* C2: a karat number followed by two colours joined by '&' and GOLD gives
\* one designation with both colours joined by " & ".
C2_CompoundReported ==
    pc = "done" /\ ~Falsy(text) =>
        LET m == Search(KaratCompoundGold, Upper(text[1]))
        IN m # <<>> => kt = Some(Designation(SubSeq(Upper(text[1]), m[1] + 1, m[2])))

\* C5: every call on the same text returns the same result.
C5_SameResultEveryCall == \A i, j \in DOMAIN runs : runs[i] = runs[j]

\* a match that starts with a karat number and the unit CT or CARAT
CtOrCaratHead == Cat(<<Rep(Digit, 1, 2), Alt(<<Lit("CT"), Lit("CARAT")>>)>>)

\* C11: when the selected match starts with 1-2 digits and CT or CARAT, the
\* result starts with the same digits and "k", and a space separates the
\* "k" from what follows.
C11_UnitBecomesK ==
    pc = "done" /\ metals # <<>> /\ MatchEnd(CtOrCaratHead, metals[1], 0) > 0 =>
        LET head == KaratDigits(metals[1]) \o "k"
        IN /\ kt # None
           /\ SubSeq(kt[1], 1, Len(head)) = head
           /\ At(kt[1], Len(head)) \in {"", " "}
           /\ Len(kt[1]) > Len(head) => At(kt[1], Len(head) + 1) \in LowerLetters

C11_Witness ==
    /\ pc = "done"
    /\ text = Some("9CARATGold Ring")
    /\ metals = <<"9CARATGOLD">>
    /\ kt = Some("9k gold")

BareMetalNames == {"PLATINUM", "STERLING SILVER", "SILVER", "TITANIUM", "BRASS",
                   "PALLADIUM", "COPPER", "ALLOY"}

\* C12: when the longest surviving match is a bare metal name, the result is
\* that name in lowercase, whether or not the word DIAMOND is in the text.
C12_BareMetalBeforeDiamond ==
    pc = "done" /\ metals # <<>> /\ metals[1] \in BareMetalNames =>
        kt = Some(Lower(metals[1]))

C12_Witness ==
    /\ pc = "done"
    /\ text = Some("Platinum Diamond Ring")
    /\ kt = Some("platinum")

HasDiamondWord == ~Falsy(text) /\ Contains(Upper(text[1]), "DIAMOND")

\* C13: when no pattern matches the text and the text holds DIAMOND in any
\* letter case, the result is "diamond".
C13_DiamondSentinel ==
    pc = "done" /\ all_matches = <<>> /\ HasDiamondWord => kt = Some("diamond")

C13_Witness ==
    /\ pc = "done"
    /\ text = Some("Diamond Ring")
    /\ all_matches = <<>>
    /\ kt = Some("diamond")

\* C14: the result is absent exactly when no pattern matches the text and
\* the text does not hold DIAMOND.
C14_AbsentIffNothingFound ==
    pc = "done" => (kt = None <=> (all_matches = <<>> /\ ~HasDiamondWord))

C14_Witness ==
    /\ pc = "done"
    /\ text = Some("Ring Ring")
    /\ all_matches = <<>>
    /\ kt = None

\* C18: every result is entirely lowercase.
C18_ResultIsLowercase ==
    pc = "done" /\ kt # None => Lower(kt[1]) = kt[1]

C18_Witness ==
    /\ pc = "done"
    /\ text = Some("18CT White Gold")
    /\ kt = Some("18k white gold")

\* C20: the returned list is ordered by length descending, no returned match
\* is inside another returned match, every match found is inside a returned
\* match, and the first returned match is at least as long as every match
\* found.
C20_Deduplicated ==
    pc = "done" =>
        /\ \A i, j \in DOMAIN metals : i < j => Len(metals[i]) >= Len(metals[j])
        /\ \A i, j \in DOMAIN metals : i # j => ~Contains(metals[i], metals[j])
        /\ \A k \in DOMAIN all_matches :
              \E i \in DOMAIN metals : Contains(metals[i], all_matches[k])
        /\ \A k \in DOMAIN all_matches : Len(metals[1]) >= Len(all_matches[k])
        /\ \A i \in DOMAIN metals : InSeq(metals[i], all_matches)

C20_Witness ==
    /\ pc = "done"
    /\ text = Some("14K White Gold Platinum")
    /\ Len(all_matches) = 4
    /\ metals = <<"14K WHITE GOLD", "PLATINUM">>


(***************************************************************************)
(* Properties of extract_diamond_weight.                                   *)
(***************************************************************************)
EndsWith(s, suffix) ==
    Len(s) >= Len(suffix) /\ SubSeq(s, Len(s) - Len(suffix) + 1, Len(s)) = suffix

\* the number of a result "<number>ct" or "<number>ct tw"
ResultNumber(w) ==
    IF EndsWith(w, "ct tw") THEN SubSeq(w, 1, Len(w) - 5) ELSE SubSeq(w, 1, Len(w) - 2)

\* The value a number stands for, as the fraction n/d: N/D is N over D,
\* W-N/D is W plus N over D, digits with a point are a decimal.  (d = 0 for a
\* zero denominator: such a number has no value.)
ValueAsWritten(v) ==
    IF Contains(v, "/")
    THEN LET wf == IF Contains(v, "-") THEN Split(v, "-") ELSE <<"0", v>>
             nd == Split(wf[2], "/")
             w == ToInt(wf[1], 1, 0)
             nn == ToInt(nd[1], 1, 0)
             dd == ToInt(nd[2], 1, 0)
         IN [n |-> w * dd + nn, d |-> dd]
    ELSE LET parts == Split(v, ".")
         IN IF Len(parts) = 1 THEN [n |-> ToInt(v, 1, 0), d |-> 1]
            ELSE [n |-> ToInt(parts[1] \o parts[2], 1, 0), d |-> Pow10(Len(parts[2]))]

HasValue(v) == ValueAsWritten(v).d # 0
LessAsWritten(a, b) ==
    ValueAsWritten(a).n * ValueAsWritten(b).d < ValueAsWritten(b).n * ValueAsWritten(a).d
BelowFive(v) == HasValue(v) /\ ValueAsWritten(v).n < 5 * ValueAsWritten(v).d

ExclusionWords == {"CUBIC ZIRCONIA", "SAPPHIRE", "CREATED"}
HasExclusionWord(s) == \E w \in ExclusionWords : Contains(s, w)

\* the text as the search sees it, before any strip
SearchedText == IF Falsy(text) THEN "" ELSE Replace(Upper(text[1]), ",", ".")

\* ms holds at least two mentions below 5.0 and w is one of the smallest
SmallestOf(ms, w) ==
    /\ w # None
    /\ \E i \in DOMAIN ms :
          /\ ms[i].val = ResultNumber(w[1])
          /\ BelowFive(ms[i].val)
          /\ \A j \in DOMAIN ms :
                BelowFive(ms[j].val) => ~LessAsWritten(ms[j].val, ms[i].val)
SeveralBelowFive(ms) ==
    \E i, j \in DOMAIN ms : i # j /\ BelowFive(ms[i].val) /\ BelowFive(ms[j].val)

\* C3 as stated: when the text holds several carat mentions below 5.0, the
\* result is the mention of smallest value.
C3_SmallestOfTextWins ==
    pc = "done" =>
        LET ms == FindMentions(SearchedText)
        IN SeveralBelowFive(ms) => SmallestOf(ms, wt)

\* C3, amended: when the text left after the leading-metal strip holds no
\* exclusion word and several carat mentions below 5.0, the result is the
\* mention of smallest value, whatever the order of the mentions.
C3_SmallestCandidateWins ==
    pc = "done" /\ ~HasExclusionWord(metal_free_text) =>
        (SeveralBelowFive(matches) => SmallestOf(matches, wt))

C3_Witness ==
    /\ pc = "done"
    /\ text = Some("2 ct 0.25 ct")
    /\ Len(diamond_cts) = 2
    /\ wt = Some("0.25ct")

\* a karat descriptor at the start of the text: the karat number with its
\* unit, and the colour and GOLD when they follow
LeadingKarat ==
    Cat(<<Bol, Rep(Digit, 1, 2), KaratUnit,
          Opt(Cat(<<Spaces, Alt(<<Lit("ROSE"), Lit("WHITE"), Lit("YELLOW")>>), Spaces,
                    Lit("GOLD")>>))>>)
HasLeadingKarat == MatchEnd(LeadingKarat, SearchedText, 0) > 0
AfterLeadingKarat ==
    LStrip(SubSeq(SearchedText, MatchEnd(LeadingKarat, SearchedText, 0) + 1,
                  Len(SearchedText)))

\* C4: a karat descriptor at the start of the text is never a candidate:
\* the candidates and the result are those of the text that follows it.
C4_LeadingKaratNotCandidate ==
    pc = "done" /\ HasLeadingKarat =>
        LET rest == AfterLeadingKarat
            cts == IF HasExclusionWord(rest) THEN <<>> ELSE ValidCts(FindMentions(rest))
        IN /\ diamond_cts = cts
           /\ wt = WeightOf(text, rest, cts)

C4_Witness ==
    /\ pc = "done"
    /\ text = Some("14K White Gold 1/2 ct tw")
    /\ Len(diamond_cts) = 1
    /\ wt = Some("1/2ct tw")

\* C6: no returned weight is 5.0 or more, and a text whose mentions are all
\* 5.0 or more gives no weight.
C6_BelowFiveOnly ==
    pc = "done" =>
        /\ wt # None => BelowFive(ResultNumber(wt[1]))
        /\ (\A i \in DOMAIN matches : ~BelowFive(matches[i].val)) => wt = None

C6_Witness ==
    /\ pc = "done"
    /\ text = Some("14K White Gold 5 ct 6 ct")
    /\ Len(matches) = 2
    /\ wt = None

\* C7: an exclusion word in the text left after the leading-metal strip
\* gives no weight, whatever mentions the text holds.
C7_ExclusionGuard ==
    pc = "done" /\ HasExclusionWord(metal_free_text) => wt = None

C7_Witness ==
    /\ pc = "done"
    /\ text = Some("Cubic Zirconia 2 ct")
    /\ metal_free_text = "CUBIC ZIRCONIA 2 CT"
    /\ wt = None

\* C8: a fraction N/D counts as N/D and a mixed number W-N/D as W + N/D when
\* the smallest mention is chosen, and the result carries the number as it
\* is written in the text.
C8_FractionsAsWritten ==
    pc = "done" /\ ~HasExclusionWord(metal_free_text) =>
        /\ \A i \in DOMAIN matches :
              LET v == matches[i].val
              IN /\ Contains(v, "/")
                 /\ BelowFive(v)
                 /\ \A j \in DOMAIN matches :
                       \/ matches[j].val = v
                       \/ ~BelowFive(matches[j].val)
                       \/ LessAsWritten(v, matches[j].val)
                 => wt # None /\ ResultNumber(wt[1]) = v
        /\ wt # None /\ Contains(ResultNumber(wt[1]), "/") =>
              /\ Contains(text[1], ResultNumber(wt[1]))
              /\ \A j \in DOMAIN matches :
                    BelowFive(matches[j].val) =>
                        ~LessAsWritten(matches[j].val, ResultNumber(wt[1]))

C8_Witness ==
    /\ pc = "done"
    /\ text = Some("2 ct 1-3/4 ct")
    /\ Len(diamond_cts) = 2
    /\ wt = Some("1-3/4ct")

\* a unit that carries a total-weight marker: CTW, CT TW, CARAT TW, CT.TW.,
\* CT. T.W.
MarkedUnit ==
    Alt(<<Lit("CTW"),
          Cat(<<Lit("CT"), Spaces, Lit("TW")>>),
          Cat(<<Lit("CARAT"), Spaces, Lit("TW")>>),
          Cat(<<Lit("CT."), Spaces, Lit("TW"), Opt(Lit("."))>>),
          Cat(<<Lit("CT."), Spaces, Lit("T.W.")>>)>>)

\* C9, for a text with a single carat mention: the result ends in "ct tw"
\* exactly when the unit of the mention carries a total-weight marker.
C9_TwSuffixFollowsUnit ==
    pc = "done" /\ wt # None /\ Len(matches) = 1 =>
        (EndsWith(wt[1], "ct tw")
            <=> Search(Cat(<<NumberPattern, Spaces, MarkedUnit>>), metal_free_text) # <<>>)

\* the numbers written with a comma between digits that a carat unit follows
CommaMention ==
    Cat(<<NotBehind(Digits \cup {",", ".", "/", "-"}), Plus(Digit), Lit(","), Plus(Digit),
          Spaces, Alt(<<Lit("CT"), Lit("CARAT")>>)>>)
CommaNumbers ==
    IF Falsy(text) THEN <<>> ELSE FindAll(CommaMention, Upper(text[1]))
WithPoint(m) == Replace(Strip(Split(m, "C")[1]), ",", ".")

\* C10: a number written with a comma between two digits is found as the
\* same digits with a decimal point, and is returned so when it is the
\* smallest mention.
C10_CommaIsDecimalPoint ==
    pc = "done" /\ ~HasExclusionWord(metal_free_text) =>
        \A i \in DOMAIN CommaNumbers :
            LET v == WithPoint(CommaNumbers[i])
            IN /\ \E k \in DOMAIN matches : matches[k].val = v
               /\ /\ BelowFive(v)
                  /\ \A j \in DOMAIN matches :
                        \/ matches[j].val = v
                        \/ ~BelowFive(matches[j].val)
                        \/ LessAsWritten(v, matches[j].val)
                  => wt # None /\ ResultNumber(wt[1]) = v

C10_Witness ==
    /\ pc = "done"
    /\ text = Some("0,50 ct")
    /\ wt = Some("0.50ct")

\* C15: no call of either extractor is left by an exception, whatever the
\* text, and an empty or absent text gives an absent result.
C15_NeverRaises ==
    pc = "done" =>
        /\ exc = None
        /\ Falsy(text) => kt = None /\ wt = None

C15_Witness ==
    /\ pc = "done"
    /\ text = Some("2-1/0 ct")
    /\ matches = <<[val |-> "2-1/0", unit |-> "CT"]>>
    /\ exc = None
    /\ wt = None

Unconvertible(ms) == {i \in DOMAIN ms : ~HasValue(ms[i].val)}

\* C16: a mention whose number has no value is dropped alone: the other
\* mentions below 5.0 are all kept as candidates, the smallest of them is
\* returned, and the call returns.
C16_BadCandidateDroppedAlone ==
    pc = "done" /\ ~HasExclusionWord(metal_free_text) /\ Unconvertible(matches) # {} =>
        /\ exc = None
        /\ \A k \in DOMAIN diamond_cts : HasValue(diamond_cts[k].val)
        /\ \A i \in DOMAIN matches :
              BelowFive(matches[i].val) =>
                  \E k \in DOMAIN diamond_cts : diamond_cts[k].val = matches[i].val
        /\ (\E i \in DOMAIN matches : BelowFive(matches[i].val)) =>
              /\ wt # None
              /\ \E i \in DOMAIN matches :
                    /\ matches[i].val = ResultNumber(wt[1])
                    /\ BelowFive(matches[i].val)
                    /\ \A j \in DOMAIN matches :
                          BelowFive(matches[j].val) =>
                              ~LessAsWritten(matches[j].val, matches[i].val)

C16_Witness ==
    /\ pc = "done"
    /\ text = Some("1/0 ct and 1/4 ct")
    /\ Len(matches) = 2
    /\ Len(diamond_cts) = 1
    /\ wt = Some("1/4ct")

\* one number token: W-N/D, N/D, a decimal or an integer
NumberToken ==
    Alt(<<Cat(<<Plus(Digit), Lit("-"), Plus(Digit), Lit("/"), Plus(Digit)>>),
          Cat(<<Plus(Digit), Lit("/"), Plus(Digit)>>),
          Cat(<<Star(Digit), Lit("."), Plus(Digit)>>),
          Plus(Digit)>>)
IsNumberToken(s) == s # "" /\ InSeq(Len(s), Ends(NumberToken, s, 0))

\* C17: every result is one number token immediately followed by "ct" or by
\* "ct tw", and nothing else.
C17_ResultShape ==
    pc = "done" /\ wt # None =>
        \E n \in 1..Len(wt[1]) :
            /\ IsNumberToken(SubSeq(wt[1], 1, n))
            /\ SubSeq(wt[1], n + 1, Len(wt[1])) \in {"ct", "ct tw"}

C17_Witness ==
    /\ pc = "done"
    /\ text = Some("1.5 Carat TW 2 ct")
    /\ wt = Some("1.5ct tw")

\* the result of the call of caller c when it runs alone
ResultAlone(c) ==
    IF calls[c].fn = "extract_karat_info" THEN extract_karat_info(calls[c].text, seed)
    ELSE extract_diamond_weight(calls[c].text)

\* C19: under every interleaving of the steps of concurrent calls, a call
\* that has returned has the result it has when it runs alone, whatever
\* calls ran before it or run beside it.
C19_CallsDoNotInterfere ==
    \A c \in Callers : calls[c].pc = "done" => calls[c].result = ResultAlone(c)

C19_Witness ==
    /\ calls[1].pc = "matched"
    /\ calls[1].text = Some("Platinum Ring 2 ct 0.25 ct")
    /\ calls[2].pc = "done"
    /\ calls[2].text = Some("14K White Gold 1/2 ct tw")
    /\ calls[2].result = Some("1/2ct tw")

\* the text with '.' for the commas that have a digit on both sides
RECURSIVE DecimalCommasFrom(_, _)
DecimalCommasFrom(s, i) ==
    IF i >= Len(s) THEN ""
    ELSE (IF At(s, i) = "," /\ At(s, i - 1) \in Digits /\ At(s, i + 1) \in Digits
          THEN "." ELSE At(s, i))
         \o DecimalCommasFrom(s, i + 1)

\* C21: a comma that is not between two digits creates and changes no
\* number: the mentions found are those of the text in which only the
\* commas between two digits are read as decimal points.
C21_SeparatorCommaChangesNothing ==
    pc = "done" /\ ~Falsy(text) /\ metal_free_text = MetalFreeOf(text) =>
        matches = MatchesOf(text, StripLeadingMetal(DecimalCommasFrom(Upper(text[1]), 0)))

\* a karat number with its unit, and nothing else
BareKaratToken == Cat(<<Rep(Digit, 1, 2), KaratUnit>>)
IsBareKarat(m) == MatchEnd(BareKaratToken, m, 0) = Len(m)

\* a karat number followed by a colour that no GOLD follows
KaratColourNoGold ==
    Cat(<<WordB, Rep(Digit, 1, 2), KaratUnit, Spaces, Colours, WordB>>)

\* the first such phrase of the text, "" when there is none or GOLD follows
ColourPhrase ==
    IF Falsy(text) THEN ""
    ELSE LET up == Upper(text[1])
             p == Search(KaratColourNoGold, up)
         IN IF p = <<>> THEN ""
            ELSE IF MatchEnd(Cat(<<Spaces, Lit("GOLD"), WordB>>), up, p[2]) >= 0 THEN ""
            ELSE SubSeq(up, p[1] + 1, p[2])

\* the karat of the phrase is the only match of the text
OnlyKaratMatched ==
    /\ ColourPhrase # ""
    /\ Len(all_matches) = 1
    /\ IsBareKarat(all_matches[1])
    /\ SubSeq(ColourPhrase, 1, Len(all_matches[1])) = all_matches[1]

\* C23 as stated: a karat number followed by a colour and no GOLD is
\* matched with its colour, and the result keeps the colour.
C23_ColourKeptWithoutGold ==
    pc = "done" /\ ColourPhrase # "" =>
        /\ InSeq(ColourPhrase, all_matches)
        /\ OnlyKaratMatched => kt = Some(Designation(ColourPhrase))

\* C23, amended: pattern (a) requires the word GOLD: a karat number
\* followed by a colour and no GOLD is never matched with its colour, and
\* when its karat is the only match the result is the karat alone.
C23_GoldRequired ==
    pc = "done" /\ ColourPhrase # "" =>
        /\ ~InSeq(ColourPhrase, all_matches)
        /\ OnlyKaratMatched => kt = Some(KaratDigits(ColourPhrase) \o "k")

C23_Witness ==
    /\ pc = "done"
    /\ text = Some("14K White Ring")
    /\ all_matches = <<"14K">>
    /\ kt = Some("14k")

\* m stands in s at a place where neither a digit nor a point precedes it
StandsUnguarded(m, s) ==
    \E i \in 0..(Len(s) - Len(m)) :
        /\ SubSeq(s, i + 1, i + Len(m)) = m
        /\ At(s, i - 1) \notin Digits \cup {"."}

LeadingToken == Cat(<<Bol, Rep(Digit, 1, 2), KaratUnit>>)
AfterLeadingToken ==
    SubSeq(SearchedText, MatchEnd(LeadingToken, SearchedText, 0) + 1, Len(SearchedText))

\* C25: a karat token at the start of the text is removed before the search,
\* with or without a colour and GOLD after it: the searched text is what
\* follows the token, and when nothing after the token is a carat mention
\* the result is absent.
C25_LeadingTokenRemoved ==
    pc = "done" /\ MatchEnd(LeadingToken, SearchedText, 0) > 0 =>
        /\ EndsWith(AfterLeadingToken, metal_free_text)
        /\ FindMentions(AfterLeadingToken) = <<>> => matches = <<>> /\ wt = None

C25_Witness ==
    /\ pc = "done"
    /\ text = Some("1CT")
    /\ metal_free_text = ""
    /\ matches = <<>>
    /\ wt = None

\* C30: every text the Diamond-metal fallback pattern matches gives at least
\* one extract_metals match, so the fallback never decides the result.
C30_FallbackNeverDecides ==
    pc = "done" /\ ~Falsy(text) /\ DiamondMetalFrom(Upper(text[1]), 0) # "" =>
        /\ metals # <<>>
        /\ kt = Some(NormalizeMetal(metals[1]))

C30_Witness ==
    /\ pc = "done"
    /\ text = Some("Diamond Platinum Ring")
    /\ metals = <<"PLATINUM">>
    /\ kt = Some("platinum")

\* the tile a written row was scraped from
TileOf(row) == CHOOSE t \in Tiles : Truncate(t.product_name, RecordNameLimit) = row.ProductName

\* C22: in every row insert_into_db has written, Kt and TotalDiaWt are what
\* extract_karat_info and extract_diamond_weight give for the record's
\* product name, whatever gold_type and diamond_weight the adapter scraped.
C22_DesignationsFromProductName ==
    \A i \in 1..Len(svc.table) :
        /\ svc.table[i].Kt = extract_karat_info(Some(svc.table[i].ProductName), seed)
        /\ svc.table[i].TotalDiaWt = extract_diamond_weight(Some(svc.table[i].ProductName))

\* a written row whose scraped gold_type and diamond_weight both differ from
\* the stored Kt and TotalDiaWt
C22_Witness ==
    \E i \in 1..Len(svc.table) :
        /\ svc.table[i].ProductName = "14K White Gold 1/2 ct tw"
        /\ svc.table[i].Kt = Some("14k white gold")
        /\ TileOf(svc.table[i]).gold_type # svc.table[i].Kt
        /\ TileOf(svc.table[i]).diamond_weight # svc.table[i].TotalDiaWt

\* C26: in one parse_and_save_products call the monthly count grows by the
\* number of rows insert_into_db committed in that call.
C26_CountEqualsCommitted ==
    svc.parsed /\ svc.status = 200 => svc.counted = svc.inserted

\* C27: no exception leaves insert_into_db, whatever fails in the database.
C27_InsertNeverRaises ==
    svc.parsed => svc.raised = None

\* C28: after insert_into_db, either every row process_row accepted is
\* committed or none is, and a connection that was opened is closed.
C28_OneTransaction ==
    svc.parsed =>
        /\ svc.inserted = svc.accepted \/ svc.inserted = 0
        /\ svc.conn \in {"none", "closed"}
        /\ svc.inserted > 0 => svc.conn = "closed"

\* two accepted rows, the batch failed: nothing is committed and the
\* connection is closed
C28_Witness ==
    /\ svc.parsed
    /\ svc.accepted = 2
    /\ svc.inserted = 0
    /\ svc.raised = None
    /\ svc.conn = "closed"

\* the request named a page of no supported retailer
UnknownSite == detect_website(svc.url) = "unknown"

\* no parser ran and nothing was written
NothingWritten ==
    /\ ~svc.parsed
    /\ svc.files = 0
    /\ svc.inserted = 0
    /\ svc.counted = 0

\* C29 as stated: every save request whose pageUrl matches no supported
\* domain, or is missing, is answered with 500 and writes nothing.
C29_UnknownSiteIs500 ==
    svc.requests > 0 /\ UnknownSite => svc.status = 500 /\ NothingWritten

\* C29, amended: a save request with at least one product entry whose pageUrl
\* matches no supported domain, or is missing, is answered with 500 and
\* writes nothing.
C29_UnknownSiteWithProductsIs500 ==
    svc.requests > 0 /\ svc.products > 0 /\ UnknownSite =>
        svc.status = 500 /\ NothingWritten

\* the retailer's domain stands in the path of the URL, not in its host
C29_Witness ==
    /\ svc.requests > 0
    /\ svc.products > 0
    /\ svc.url = Some("https://shop.example.com/www.macys.com")
    /\ UnknownSite
    /\ svc.status = 500
    /\ NothingWritten

Init == InitMetal
Next == NextMetal
Spec == SpecMetal
====
